---- MODULE Spec2Model ----
(***************************************************************************)
(* The online DQN controller of src/src/dqn.rs: the replay buffer, the     *)
(* epsilon-greedy policy, the reward shaping and the tick scheduler of     *)
(* dqn_system.                                                             *)
(*                                                                         *)
(* Units.  Simulation time is counted in half seconds, so STEP_DURATION    *)
(* (0.5 s) is 1.  Track progress is counted in steps of 0.05 m, so that    *)
(* dprogress / STEP_DURATION is a rate in steps of 0.1 m/s.  Rewards are   *)
(* counted in steps of 1/150 m/s (one fifteenth of a rate step), so that   *)
(* x / 15 is exact.  Angles are in degrees, so FRAC_PI_2 is 90.            *)
(* eps, min_eps, max_eps, DECAY and random_number are f32 values, held as  *)
(* their IEEE-754 bit patterns: for non-negative floats the order of the   *)
(* bit patterns is the order of the values, and F32Sub is the correctly    *)
(* rounded single-precision subtraction.                                   *)
(* The networks are held as the number of optimizer updates that produced  *)
(* their parameters; the output of a forward pass is an input of the tick. *)
(***************************************************************************)
EXTENDS Integers, Sequences, FiniteSets, TLC

----------------------------------------------------------------------------
(* Program constants.  BATCH_SIZE (64 in the source) and BUFFER_SIZE       *)
(* (500_000 in the source) are scaled down; SENSOR_COUNT is a constant of  *)
(* the car module.                                                         *)
BATCH_SIZE == 2
BUFFER_SIZE == 4
SENSOR_COUNT == 1
STATE_SIZE_BASE == 3
STATE_SIZE == STATE_SIZE_BASE + SENSOR_COUNT
ACTION_SIZE == 8
SYNC_INTERVAL_STEPS == 100
STEP_DURATION == 1
FRAC_PI_2 == 90
EPOCHS == 20
\* 0.001f32
DECAY == 981668463
\* 1.0f32
MAX_EPS == 1065353216
\* 0.01f32
MIN_EPS == 1008981770
\* -10. in reward steps of 1/150
CRASH_REWARD == -1500
\* 0.2 in rate steps of 0.1
MIN_RATE == 2
\* the divisor of x / 15., which is one rate step in reward steps
RATE_DIVISOR == 15

ASSET_ROAD == "road"

----------------------------------------------------------------------------
(* Bounds of the model. *)
\* the last simulation time (in half seconds) of the open specification
MaxTime == 3
\* the number of scripted eligible ticks that open the long specification
WarmupTicks == 994
\* the number of unscripted eligible ticks that follow them
OpenTicks == 3
DashTicks == 104
\* the number of entities the game server, and the game client, can spawn
MaxEntities == 3

----------------------------------------------------------------------------
(* Single-precision arithmetic on bit patterns. *)
RECURSIVE Pow2(_)
Pow2(n) == IF n = 0 THEN 1 ELSE 2 * Pow2(n - 1)

F32Exp(x) == x \div 8388608

F32Mant(x) == 8388608 + (x % 8388608)

\* m shifted right by d bits, the bits shifted out or-ed into the last bit
F32ShiftSticky(m, d) ==
    IF d >= 27 THEN 1
    ELSE LET q == m \div Pow2(d)
             r == m % Pow2(d)
         IN  IF r # 0 /\ q % 2 = 0 THEN q + 1 ELSE q

RECURSIVE F32Normalize(_, _)
F32Normalize(D, e) ==
    IF D = 0 THEN <<0, 0>>
    ELSE IF D < 67108864 /\ e > 1 THEN F32Normalize(2 * D, e - 1)
    ELSE <<D, e>>

\* round to nearest, ties to even, on three guard bits
F32Round(D, e) ==
    LET keep == D \div 8
        rem  == D % 8
        up   == IF rem > 4 \/ (rem = 4 /\ keep % 2 = 1) THEN 1 ELSE 0
    IN  e * 8388608 + (keep - 8388608) + up

\* a - b for normal a >= b > 0
F32Sub(a, b) ==
    LET d == F32Exp(a) - F32Exp(b)
        A == F32Mant(a) * 8
        B == F32ShiftSticky(F32Mant(b) * 8, d)
        n == F32Normalize(A - B, F32Exp(a))
    IN  IF n[1] = 0 THEN 0 ELSE F32Round(n[1], n[2])

----------------------------------------------------------------------------
VARIABLES
    time,      \* Time::seconds_since_startup
    dqn,       \* the DqnResource
    car_dqn,   \* the CarDqn component of the car
    car,       \* the actuator fields of the Car component
    frame,     \* the local variables of the last call of dqn_system
    recent,    \* history: the last BUFFER_SIZE transitions passed to store
    panicked,  \* the process has aborted in panic!()
    dash,      \* the two texts of the dashboard
    server,    \* the game server: lobby, world and the last run of its system
    online,    \* history: the clients that connected and did not disconnect since
    client     \* the game client: lobby, network mapping, world and last run

vars == <<time, dqn, car_dqn, car, frame, recent, panicked, dash, server, online, client>>

----------------------------------------------------------------------------
(* ReplayBuffer *)
ReplayBufferNew ==
    [state |-> <<>>, action |-> <<>>, reward |-> <<>>, next_state |-> <<>>, i |-> 0]

RbLen(rb) == Len(rb.state)

\* the StateTuple at the 0-based index i
StateTupleAt(rb, i) ==
    <<rb.state[i + 1], rb.action[i + 1], rb.reward[i + 1], rb.next_state[i + 1]>>

\* mutant: every element of the batch is read at the first drawn index
GetBatchFirstOnly(rb, sample_indexes) ==
    [j \in 1..BATCH_SIZE |-> StateTupleAt(rb, sample_indexes[1])]

GetBatch(rb, sample_indexes) ==
    [j \in 1..BATCH_SIZE |-> StateTupleAt(rb, sample_indexes[j])]

\* mutant: a full buffer still grows (<= for < in the capacity test)
StoreGrows(rb, state, action, reward, next_state) ==
    IF RbLen(rb) <= BUFFER_SIZE
    THEN [state      |-> Append(rb.state, state),
          action     |-> Append(rb.action, action),
          reward     |-> Append(rb.reward, reward),
          next_state |-> Append(rb.next_state, next_state),
          i          |-> rb.i + 1]
    ELSE [state      |-> [rb.state EXCEPT ![(rb.i % BUFFER_SIZE) + 1] = state],
          action     |-> [rb.action EXCEPT ![(rb.i % BUFFER_SIZE) + 1] = action],
          reward     |-> [rb.reward EXCEPT ![(rb.i % BUFFER_SIZE) + 1] = reward],
          next_state |-> [rb.next_state EXCEPT ![(rb.i % BUFFER_SIZE) + 1] = next_state],
          i          |-> rb.i + 1]

\* mutant: a full buffer is overwritten one slot too far
StoreNextSlot(rb, state, action, reward, next_state) ==
    LET i == (rb.i + 1) % BUFFER_SIZE
    IN  IF RbLen(rb) < BUFFER_SIZE
        THEN [state      |-> Append(rb.state, state),
              action     |-> Append(rb.action, action),
              reward     |-> Append(rb.reward, reward),
              next_state |-> Append(rb.next_state, next_state),
              i          |-> rb.i + 1]
        ELSE [state      |-> [rb.state EXCEPT ![i + 1] = state],
              action     |-> [rb.action EXCEPT ![i + 1] = action],
              reward     |-> [rb.reward EXCEPT ![i + 1] = reward],
              next_state |-> [rb.next_state EXCEPT ![i + 1] = next_state],
              i          |-> rb.i + 1]

\* mutant: an overwritten slot keeps its old next_state
StoreLeavesNextState(rb, state, action, reward, next_state) ==
    LET i == rb.i % BUFFER_SIZE
    IN  IF RbLen(rb) < BUFFER_SIZE
        THEN [state      |-> Append(rb.state, state),
              action     |-> Append(rb.action, action),
              reward     |-> Append(rb.reward, reward),
              next_state |-> Append(rb.next_state, next_state),
              i          |-> rb.i + 1]
        ELSE [state      |-> [rb.state EXCEPT ![i + 1] = state],
              action     |-> [rb.action EXCEPT ![i + 1] = action],
              reward     |-> [rb.reward EXCEPT ![i + 1] = reward],
              next_state |-> rb.next_state,
              i          |-> rb.i + 1]

\* mutant: a full buffer is emptied before the store
StoreRestarts(rb, state, action, reward, next_state) ==
    IF RbLen(rb) < BUFFER_SIZE
    THEN [state      |-> Append(rb.state, state),
          action     |-> Append(rb.action, action),
          reward     |-> Append(rb.reward, reward),
          next_state |-> Append(rb.next_state, next_state),
          i          |-> rb.i + 1]
    ELSE [state      |-> <<state>>,
          action     |-> <<action>>,
          reward     |-> <<reward>>,
          next_state |-> <<next_state>>,
          i          |-> rb.i + 1]

\* mutant: while the buffer fills, the reward vector is not extended
StoreDropsReward(rb, state, action, reward, next_state) ==
    LET i == rb.i % BUFFER_SIZE
    IN  IF RbLen(rb) < BUFFER_SIZE
        THEN [state      |-> Append(rb.state, state),
              action     |-> Append(rb.action, action),
              reward     |-> rb.reward,
              next_state |-> Append(rb.next_state, next_state),
              i          |-> rb.i + 1]
        ELSE [state      |-> [rb.state EXCEPT ![i + 1] = state],
              action     |-> [rb.action EXCEPT ![i + 1] = action],
              reward     |-> [rb.reward EXCEPT ![i + 1] = reward],
              next_state |-> [rb.next_state EXCEPT ![i + 1] = next_state],
              i          |-> rb.i + 1]

Store(rb, state, action, reward, next_state) ==
    LET i == rb.i % BUFFER_SIZE
    IN  IF RbLen(rb) < BUFFER_SIZE
        THEN [state      |-> Append(rb.state, state),
              action     |-> Append(rb.action, action),
              reward     |-> Append(rb.reward, reward),
              next_state |-> Append(rb.next_state, next_state),
              i          |-> rb.i + 1]
        ELSE [state      |-> [rb.state EXCEPT ![i + 1] = state],
              action     |-> [rb.action EXCEPT ![i + 1] = action],
              reward     |-> [rb.reward EXCEPT ![i + 1] = reward],
              next_state |-> [rb.next_state EXCEPT ![i + 1] = next_state],
              i          |-> rb.i + 1]

----------------------------------------------------------------------------
(* DqnResource, CarDqn *)
ZeroObs == [k \in 1..STATE_SIZE |-> 0]

\* mutant: the resource starts with epsilon at its floor
DqnResourceNewGreedy ==
    [seconds |-> 0, step |-> 0, qn |-> 0, tqn |-> 0, rb |-> ReplayBufferNew,
     eps |-> MIN_EPS, max_eps |-> MAX_EPS, min_eps |-> MIN_EPS, done |-> 0]

DqnResourceNew ==
    [seconds |-> 0, step |-> 0, qn |-> 0, tqn |-> 0, rb |-> ReplayBufferNew,
     eps |-> MAX_EPS, max_eps |-> MAX_EPS, min_eps |-> MIN_EPS, done |-> 0]

\* mutant: the agent memory starts with a previous progress of 0.05 m
CarDqnNewMoved ==
    [prev_obs |-> ZeroObs, prev_action |-> 0, prev_reward |-> 0, prev_progress |-> 1]

CarDqnNew ==
    [prev_obs |-> ZeroObs, prev_action |-> 0, prev_reward |-> 0, prev_progress |-> 0]

----------------------------------------------------------------------------
(* The pieces of dqn_system. *)
Crashed(colliding_entities) ==
    \E e \in colliding_entities : e # ASSET_ROAD

\* mutant: the angle and the speed change places
BuildObsSwapped(meters, angle, mps, sensor_inputs) ==
    [k \in 1..STATE_SIZE |->
        CASE k = 1 -> meters
          [] k = 2 -> mps
          [] k = 3 -> angle
          [] OTHER -> sensor_inputs[k - STATE_SIZE_BASE]]

BuildObs(meters, angle, mps, sensor_inputs) ==
    [k \in 1..STATE_SIZE |->
        CASE k = 1 -> meters
          [] k = 2 -> angle
          [] k = 3 -> mps
          [] OTHER -> sensor_inputs[k - STATE_SIZE_BASE]]

\* mutant: the test looks at the magnitude of the angle
DirectionFlipTwoSided(angle) == FRAC_PI_2 - angle < 0 \/ FRAC_PI_2 + angle < 0

\* angle_direction_unit < 0., with angle_direction_unit = 1. - angle / FRAC_PI_2
DirectionFlip(angle) == FRAC_PI_2 - angle < 0

\* mutant: the sign is flipped whenever the car faces backward
DProgressFlipsAny(meters, prev_progress, angle) ==
    LET dprogress == meters - prev_progress
    IN  IF DirectionFlip(angle) THEN dprogress * (-1) ELSE dprogress

\* dprogress after the sign flip
DProgress(meters, prev_progress, angle) ==
    LET dprogress == meters - prev_progress
    IN  IF dprogress > 0 /\ DirectionFlip(angle) THEN dprogress * (-1) ELSE dprogress

\* mutant: no minimum threshold
ProgressRewardNoThreshold(dprogress) ==
    LET x == dprogress \div STEP_DURATION
    IN  CASE x > 0 -> (x * RATE_DIVISOR) \div RATE_DIVISOR
          [] OTHER -> x * RATE_DIVISOR

\* the match on dprogress / STEP_DURATION
ProgressReward(dprogress) ==
    LET x == dprogress \div STEP_DURATION
    IN  CASE x > 0 /\ x < MIN_RATE -> 0
          [] x > 0                 -> (x * RATE_DIVISOR) \div RATE_DIVISOR
          [] OTHER                 -> x * RATE_DIVISOR

Reward(crashed, meters, prev_progress, angle) ==
    IF crashed THEN CRASH_REWARD
    ELSE ProgressReward(DProgress(meters, prev_progress, angle))

\* mutant: the reset is made whether or not the car crashed
ResetsEpsOnCrash(crashed, angle, eps, min_eps) ==
    DirectionFlip(angle) /\ eps <= min_eps

\* mutant: the reset waits for epsilon to fall below min_eps (< for <=)
ResetsEpsBelowFloor(crashed, angle, eps, min_eps) ==
    ~crashed /\ DirectionFlip(angle) /\ eps < min_eps

\* the epsilon reset of the reward branch
ResetsEps(crashed, angle, eps, min_eps) ==
    ~crashed /\ DirectionFlip(angle) /\ eps <= min_eps

\* mutant: the reset is left for after the action selection
ApplyResetLate(d, eps_reset) == d

\* dqn.eps = dqn.max_eps in the reward branch, ahead of the action selection
ApplyReset(d, eps_reset) ==
    IF eps_reset THEN [d EXCEPT !.eps = d.max_eps] ELSE d

\* rng.gen_range(0..ACTION_SIZE - 1)
RandomActionRange == 0..(ACTION_SIZE - 1 - 1)

(* A network output is a pair <<is NaN, value>>. *)
NaN == <<TRUE, 0>>

Num(v) == <<FALSE, v>>

IsNaN(q) == q[1]

\* max_last_dim: NaN when no output is a number
MaxLastDim(q_values) ==
    LET nums == {q_values[k][2] : k \in {j \in 1..ACTION_SIZE : ~IsNaN(q_values[j])}}
    IN  IF nums = {} THEN NaN
        ELSE Num(CHOOSE m \in nums : \A n \in nums : m >= n)

\* q >= max_q_value on floats
F32Ge(q, m) == ~IsNaN(q) /\ ~IsNaN(m) /\ q[2] >= m[2]

\* mutant: the panic comes after the memory of the agent is written
PanicWritesMemory(d1, crashed, obs, eps_reset, reward, q_values) ==
    /\ dqn' = d1
    /\ panicked' = TRUE
    /\ frame' = [ran |-> TRUE, crashed |-> crashed, obs |-> obs,
                 eps_reset |-> eps_reset, reward |-> reward,
                 use_random |-> FALSE, q_values |-> q_values, action |-> 0,
                 trained |-> FALSE, batch_indexes |-> <<>>, batch |-> <<>>,
                 loss_finite |-> TRUE]
    /\ car_dqn' = [car_dqn EXCEPT !.prev_obs = obs, !.prev_reward = reward]
    /\ UNCHANGED <<car, recent>>

\* mutant: the last index that attains the maximum
PositionLast(q_values, max_q_value) ==
    LET hits == {k \in 1..ACTION_SIZE : F32Ge(q_values[k], max_q_value)}
    IN  IF hits = {} THEN <<>>
        ELSE <<(CHOOSE k \in hits : \A j \in hits : k >= j) - 1>>

\* iter().position(|q| *q >= max_q_value): <<>> for None, <<k>> for
\* Some(k), k the 0-based index
Position(q_values, max_q_value) ==
    LET hits == {k \in 1..ACTION_SIZE : F32Ge(q_values[k], max_q_value)}
    IN  IF hits = {} THEN <<>>
        ELSE <<(CHOOSE k \in hits : \A j \in hits : k <= j) - 1>>

\* the epsilon decay at the end of a training pass
Decay(eps, min_eps) ==
    IF eps <= min_eps THEN min_eps ELSE F32Sub(eps, DECAY)

Gas(action) == IF action = 0 \/ action = 4 \/ action = 5 THEN 1 ELSE 0
\* mutant: action 4 brakes as well
BrakeAlsoFour(action) == IF action = 1 \/ action = 4 \/ action = 6 \/ action = 7 THEN 1 ELSE 0
Brake(action) == IF action = 1 \/ action = 6 \/ action = 7 THEN 1 ELSE 0
\* mutant: left and right are confused for action 5
LeftAlsoFive(action) == IF action = 2 \/ action = 4 \/ action = 5 THEN 1 ELSE 0

Left(action) == IF action = 2 \/ action = 4 \/ action = 6 THEN 1 ELSE 0
Right(action) == IF action = 3 \/ action = 5 \/ action = 7 THEN 1 ELSE 0

\* dqn.seconds = seconds + STEP_DURATION
NextWatermark(seconds, watermark) == seconds + STEP_DURATION

\* mutant: a call at the watermark is due
DueAtWatermark(seconds, watermark) == seconds >= watermark

\* seconds > dqn.seconds
Due(seconds, watermark) == seconds > watermark

\* mutant: the step counter has the gate of the training pass
StepGateTraining(rb) == RbLen(rb) > BATCH_SIZE + 1

\* dqn.rb.len() > BATCH_SIZE
StepGate(rb) == RbLen(rb) > BATCH_SIZE

RECURSIVE GradientEpochsStopsEarly(_, _)
\* mutant: the loop is left at the second epoch that logs the loss
GradientEpochsStopsEarly(qn, i_epoch) ==
    IF i_epoch >= EPOCHS \/ (i_epoch > 0 /\ i_epoch % 5 = 0) THEN qn
    ELSE GradientEpochsStopsEarly(qn + 1, i_epoch + 1)

RECURSIVE GradientEpochs(_, _)
\* for _i_epoch in 0..20: one sgd.update of qn in every epoch
GradientEpochs(qn, i_epoch) ==
    IF i_epoch >= EPOCHS THEN qn
    ELSE GradientEpochs(qn + 1, i_epoch + 1)

\* mutant: the training gate is the gate of the step counter
TrainGateStep(rb) == RbLen(rb) > BATCH_SIZE

\* dqn.rb.len() > BATCH_SIZE + 1
TrainGate(rb) == RbLen(rb) > BATCH_SIZE + 1

\* dqn.step % SYNC_INTERVAL_STEPS == 0
Syncs(step) == step % SYNC_INTERVAL_STEPS = 0

\* mutant: the gradient epochs update the target network as well
TargetAfterPassTrained(step, qn, tqn) ==
    IF Syncs(step) THEN qn ELSE tqn + EPOCHS

\* the target network after a training pass that left the trainable
\* network at qn
TargetAfterPass(step, qn, tqn) ==
    IF Syncs(step) THEN qn ELSE tqn

\* mutant: the reward is stored with the action chosen in this tick
NewTransitionThisAction(cd, action, reward, obs) ==
    <<cd.prev_obs, action, reward, obs>>

\* the arguments of dqn.rb.store
NewTransition(cd, action, reward, obs) ==
    <<cd.prev_obs, cd.prev_action, reward, obs>>

\* the history of the last BUFFER_SIZE stored transitions
Remember(h, t) ==
    LET all == Append(h, t)
    IN  IF Len(all) > BUFFER_SIZE THEN Tail(all) ELSE all

----------------------------------------------------------------------------
(* The game server: ServerLobby and server_update_system.  An Entity is   *)
(* a number that is never handed out twice; the world maps every live     *)
(* player entity to its Player id and its PlayerInput.  Commands are      *)
(* queued while the system runs and applied to the world when it ends.    *)

ClientIds == {1, 2}

PlayerInputDefault ==
    [forward |-> FALSE, left |-> FALSE, right |-> FALSE, brake |-> FALSE]

PlayerInputs ==
    {PlayerInputDefault,
     [forward |-> TRUE, left |-> FALSE, right |-> TRUE, brake |-> FALSE]}

\* HashMap::insert, HashMap::remove
MapInsert(m, k, v) == [x \in DOMAIN m \cup {k} |-> IF x = k THEN v ELSE m[x]]

MapRemove(m, k) == [x \in DOMAIN m \ {k} |-> m[x]]

PlayerCreate(id, entity) == [type |-> "PlayerCreate", id |-> id, entity |-> entity]

PlayerRemove(id) == [type |-> "PlayerRemove", id |-> id]

\* the addressee of a sent message: every client, or one client
Broadcast == <<>>

SendTo(client_id) == <<client_id>>

ServerLobbyDefault == [players |-> <<>>]

ServerNew ==
    [lobby |-> ServerLobbyDefault, world |-> <<>>, next_entity |-> 1,
     cmds |-> <<>>, sent |-> <<>>, events |-> <<>>, messages |-> <<>>]

\* the PlayerCreate messages for the players found by the query, by entity
RECURSIVE ExistingPlayers(_, _, _)
ExistingPlayers(world, client_id, from) ==
    IF \A e \in DOMAIN world : e < from THEN <<>>
    ELSE LET e == CHOOSE x \in DOMAIN world :
                      x >= from /\ \A y \in DOMAIN world : y >= from => x <= y
         IN  <<<<SendTo(client_id), PlayerCreate(world[e].id, e)>>>>
               \o ExistingPlayers(world, client_id, e + 1)

\* ServerEvent::ClientConnected
ClientConnected(s, client_id) ==
    LET player_entity == s.next_entity
    IN  [s EXCEPT
           !.next_entity = @ + 1,
           !.cmds = @ \o <<[op |-> "spawn", entity |-> player_entity,
                            id |-> client_id, input |-> PlayerInputDefault]>>,
           !.lobby.players = MapInsert(@, client_id, player_entity),
           !.sent = @ \o ExistingPlayers(s.world, client_id, 0)
                      \o <<<<Broadcast, PlayerCreate(client_id, player_entity)>>>>]

\* mutant: a disconnect despawns the entity and leaves the lobby entry
ClientDisconnectedKeepsEntry(s, client_id) ==
    LET known == client_id \in DOMAIN s.lobby.players
    IN  [s EXCEPT
           !.cmds = IF known
                    THEN @ \o <<[op |-> "despawn",
                                 entity |-> s.lobby.players[client_id]]>>
                    ELSE @,
           !.sent = @ \o <<<<Broadcast, PlayerRemove(client_id)>>>>]

\* ServerEvent::ClientDisconnected
ClientDisconnected(s, client_id) ==
    LET known == client_id \in DOMAIN s.lobby.players
    IN  [s EXCEPT
           !.lobby.players = IF known THEN MapRemove(@, client_id) ELSE @,
           !.cmds = IF known
                    THEN @ \o <<[op |-> "despawn",
                                 entity |-> s.lobby.players[client_id]]>>
                    ELSE @,
           !.sent = @ \o <<<<Broadcast, PlayerRemove(client_id)>>>>]

\* the loop over server_events.read()
RECURSIVE ReadEvents(_, _)
ReadEvents(s, events) ==
    IF events = <<>> THEN s
    ELSE LET event == Head(events)
         IN  ReadEvents(IF event.type = "ClientConnected"
                        THEN ClientConnected(s, event.client_id)
                        ELSE ClientDisconnected(s, event.client_id),
                        Tail(events))

\* one message of ClientChannel::Input
ReceiveInput(s, client_id, input) ==
    IF client_id \in DOMAIN s.lobby.players
    THEN [s EXCEPT !.cmds = @ \o <<[op |-> "insert",
                                    entity |-> s.lobby.players[client_id],
                                    input |-> input]>>]
    ELSE s

\* the loop over server.clients_id() and the messages of each client
RECURSIVE ReceiveMessages(_, _)
ReceiveMessages(s, messages) ==
    IF messages = <<>> THEN s
    ELSE ReceiveMessages(ReceiveInput(s, Head(messages).client_id,
                                      Head(messages).input),
                         Tail(messages))

\* the queued commands, applied in order
RECURSIVE ApplyCommands(_, _)
ApplyCommands(world, cmds) ==
    IF cmds = <<>> THEN world
    ELSE LET c == Head(cmds)
             w == CASE c.op = "spawn" ->
                         MapInsert(world, c.entity,
                                   [id |-> c.id, input |-> c.input])
                    [] c.op = "despawn" -> MapRemove(world, c.entity)
                    [] c.op = "insert" ->
                         [world EXCEPT ![c.entity].input = c.input]
         IN  ApplyCommands(w, Tail(cmds))

\* the clients that connected and did not disconnect since
RECURSIVE OnlineAfter(_, _)
OnlineAfter(set, events) ==
    IF events = <<>> THEN set
    ELSE OnlineAfter(IF Head(events).type = "ClientConnected"
                     THEN set \cup {Head(events).client_id}
                     ELSE set \ {Head(events).client_id},
                     Tail(events))

Connects(events) ==
    Cardinality({k \in 1..Len(events) : events[k].type = "ClientConnected"})

server_update_system(events, messages) ==
    /\ server.next_entity + Connects(events) <= MaxEntities + 1
    /\ LET s0 == [server EXCEPT !.cmds = <<>>, !.sent = <<>>,
                                !.events = events, !.messages = messages]
           s1 == ReadEvents(s0, events)
           s2 == ReceiveMessages(s1, messages)
       IN  server' = [s2 EXCEPT !.world = ApplyCommands(server.world, s2.cmds),
                                !.cmds = <<>>]
    /\ online' = OnlineAfter(online, events)
    /\ UNCHANGED <<time, dqn, car_dqn, car, frame, recent, panicked, dash, client>>

ServerEvents ==
    [type : {"ClientConnected", "ClientDisconnected"}, client_id : ClientIds]

InputMessages == [client_id : ClientIds, input : PlayerInputs]

SeqsUpTo(S, n) == UNION {[1..k -> S] : k \in 0..n}


----------------------------------------------------------------------------
(* The game client: ClientLobby, NetworkMapping and client_sync_players.  *)
(* The world maps every live car entity of the client to whether it is    *)
(* the controlled player and whether a transform was synced to it.        *)

ServerEntities == {1, 2}

ClientNew ==
    [client_id |-> 1, lobby |-> [players |-> <<>>],
     network_mapping |-> <<>>, world |-> <<>>, next_entity |-> 1,
     cmds |-> <<>>, messages |-> <<>>, panicked |-> FALSE]

\* ServerMessages::PlayerCreate
OnPlayerCreate(c, id, entity) ==
    LET is_player == c.client_id = id
        client_entity == c.next_entity
        player_info == [client_entity |-> client_entity, server_entity |-> entity]
    IN  [c EXCEPT
           !.next_entity = @ + 1,
           !.cmds = @ \o <<[op |-> "spawn", entity |-> client_entity,
                            controlled |-> is_player]>>,
           !.lobby.players = MapInsert(@, id, player_info),
           !.network_mapping = MapInsert(@, entity, client_entity)]

\* ServerMessages::PlayerRemove
OnPlayerRemove(c, id) ==
    IF id \in DOMAIN c.lobby.players
    THEN LET info == c.lobby.players[id]
         IN  [c EXCEPT
                !.lobby.players = MapRemove(@, id),
                !.cmds = @ \o <<[op |-> "despawn", entity |-> info.client_entity]>>,
                !.network_mapping = MapRemove(@, info.server_entity)]
    ELSE c

\* the loop over the messages of ServerChannel::ServerMessages
RECURSIVE SyncPlayers(_, _)
SyncPlayers(c, messages) ==
    IF messages = <<>> THEN c
    ELSE LET m == Head(messages)
         IN  SyncPlayers(IF m.type = "PlayerCreate"
                         THEN OnPlayerCreate(c, m.id, m.entity)
                         ELSE OnPlayerRemove(c, m.id),
                         Tail(messages))

\* the entities cmd.entity() accepts: those of the world and those
\* spawned by the commands queued so far
Exists(world, cmds, e) ==
    \/ e \in DOMAIN world
    \/ \E k \in 1..Len(cmds) : cmds[k].op = "spawn" /\ cmds[k].entity = e

\* one message of ServerChannel::NetworkedEntities: every entity of the
\* message that has an entry in the network mapping gets its transform;
\* cmd.entity() panics on an entity that does not exist
SyncEntities(c, world, entities) ==
    LET mapped == {e \in entities : e \in DOMAIN c.network_mapping}
        targets == {c.network_mapping[e] : e \in mapped}
    IN  IF \E t \in targets : ~Exists(world, c.cmds, t)
        THEN [c EXCEPT !.panicked = TRUE]
        ELSE [c EXCEPT !.cmds = @ \o
                 [k \in 1..(IF targets = {} THEN 0 ELSE 1) |->
                     [op |-> "insert", entities |-> targets]]]

RECURSIVE ApplyClientCommands(_, _)
ApplyClientCommands(world, cmds) ==
    IF cmds = <<>> THEN world
    ELSE LET c == Head(cmds)
             w == CASE c.op = "spawn" ->
                         MapInsert(world, c.entity,
                                   [controlled |-> c.controlled, synced |-> FALSE])
                    [] c.op = "despawn" -> MapRemove(world, c.entity)
                    [] c.op = "insert" ->
                         [e \in DOMAIN world |->
                            IF e \in c.entities
                            THEN [world[e] EXCEPT !.synced = TRUE]
                            ELSE world[e]]
         IN  ApplyClientCommands(w, Tail(cmds))

Creates(messages) ==
    Cardinality({k \in 1..Len(messages) : messages[k].type = "PlayerCreate"})

client_sync_players(messages, networked_entities) ==
    /\ ~client.panicked
    /\ client.next_entity + Creates(messages) <= MaxEntities + 1
    /\ LET c0 == [client EXCEPT !.cmds = <<>>, !.messages = messages]
           c1 == SyncPlayers(c0, messages)
           c2 == SyncEntities(c1, client.world, networked_entities)
       IN  client' = IF c2.panicked THEN c2
                     ELSE [c2 EXCEPT !.world = ApplyClientCommands(client.world, c2.cmds),
                                     !.cmds = <<>>]
    /\ UNCHANGED <<time, dqn, car_dqn, car, frame, recent, panicked, dash,
                   server, online>>

ServerMessages ==
    {PlayerCreate(id, entity) : id \in ClientIds, entity \in ServerEntities}
        \cup {PlayerRemove(id) : id \in ClientIds}


----------------------------------------------------------------------------
NoFrame ==
    [ran |-> FALSE, crashed |-> FALSE, obs |-> ZeroObs, eps_reset |-> FALSE,
     reward |-> 0, use_random |-> FALSE,
     q_values |-> <<>>, action |-> 0, trained |-> FALSE,
     batch_indexes |-> <<>>, batch |-> <<>>, loss_finite |-> TRUE]

Init ==
    /\ time = 0
    /\ dqn = DqnResourceNew
    /\ car_dqn = CarDqnNew
    /\ car = [gas |-> 0, brake |-> 0, steering |-> 0]
    /\ frame = NoFrame
    /\ recent = <<>>
    /\ panicked = FALSE
    /\ dash = [generation |-> <<>>, timing |-> <<>>]
    /\ server = ServerNew
    /\ online = {}
    /\ client = ClientNew

\* mutant: a call that is not due releases the actuators
NotDueReleases ==
    /\ frame' = NoFrame
    /\ car' = [gas |-> 0, brake |-> 0, steering |-> 0]
    /\ UNCHANGED <<dqn, car_dqn, recent, panicked>>

\* mutant: a call that is not due is a failure
NotDuePanics ==
    /\ frame' = NoFrame
    /\ panicked' = TRUE
    /\ UNCHANGED <<dqn, car_dqn, car, recent>>

\* the early return of a call that is not due
NotDue ==
    /\ frame' = NoFrame
    /\ UNCHANGED <<dqn, car_dqn, car, recent, panicked>>

\* the rest of the tick, from the training gate on
Finish(d1, crashed, obs, eps_reset, reward, use_random, q_values, action, draws) ==
    LET train == TrainGate(d1.rb)
        meters == obs[1]
        t == NewTransition(car_dqn, action, reward, obs)
        rb2 == Store(d1.rb, t[1], t[2], t[3], t[4])
    IN  \E batch_indexes \in
              IF train THEN [1..BATCH_SIZE -> (0..(RbLen(d1.rb) - 1)) \cap draws.index]
              ELSE {<<>>},
           loss_finite \in IF train THEN draws.loss_finite ELSE {TRUE} :
          LET batch == IF train THEN GetBatch(d1.rb, batch_indexes) ELSE <<>>
              qn2 == IF train THEN GradientEpochs(d1.qn, 0) ELSE d1.qn
              tqn2 == IF train THEN TargetAfterPass(d1.step, qn2, d1.tqn) ELSE d1.tqn
              eps2 == IF train THEN Decay(d1.eps, d1.min_eps) ELSE d1.eps
          IN  /\ dqn' = [d1 EXCEPT !.qn = qn2, !.tqn = tqn2, !.eps = eps2, !.rb = rb2]
              /\ recent' = Remember(recent, t)
              /\ car_dqn' = [prev_obs |-> obs, prev_action |-> action,
                             prev_reward |-> reward, prev_progress |-> meters]
              /\ car' = [gas |-> Gas(action), brake |-> Brake(action),
                         steering |-> (-Left(action)) + Right(action)]
              /\ frame' = [ran |-> TRUE, crashed |-> crashed, obs |-> obs,
                           eps_reset |-> eps_reset, reward |-> reward,
                           use_random |-> use_random, q_values |-> q_values,
                           action |-> action, trained |-> train,
                           batch_indexes |-> batch_indexes, batch |-> batch,
                           loss_finite |-> loss_finite]
              /\ UNCHANGED panicked

\* panic!() in the exploitation branch: the tick stops there
Panic(d1, crashed, obs, eps_reset, reward, q_values) ==
    /\ dqn' = d1
    /\ panicked' = TRUE
    /\ frame' = [NoFrame EXCEPT !.ran = TRUE, !.crashed = crashed, !.obs = obs,
                                !.eps_reset = eps_reset, !.reward = reward,
                                !.q_values = q_values]
    /\ UNCHANGED <<car_dqn, car, recent>>

(* One call of dqn_system, dt half seconds after the previous call.  env   *)
(* is what the call reads from the simulation; draws are the sets the      *)
(* random draws and the network outputs of the call are taken from.        *)
dqn_system(dt, env, draws) ==
    /\ ~panicked
    /\ time' = time + dt
    /\ UNCHANGED <<dash, server, online, client>>
    /\ LET seconds == time + dt
       IN  IF ~Due(seconds, dqn.seconds) THEN NotDue
           ELSE
             LET d0 == [dqn EXCEPT
                          !.seconds = NextWatermark(seconds, dqn.seconds),
                          !.step = IF StepGate(dqn.rb)
                                   THEN dqn.step + 1 ELSE dqn.step]
                 crashed == Crashed(env.colliding_entities)
                 obs == BuildObs(env.meters, env.angle, env.mps, env.sensor_inputs)
                 reward == Reward(crashed, env.meters, car_dqn.prev_progress, env.angle)
                 eps_reset == ResetsEps(crashed, env.angle, d0.eps, d0.min_eps)
                 d1 == ApplyReset(d0, eps_reset)
             IN  \E random_number \in draws.random_number :
                   LET use_random == random_number < d1.eps
                   IN  IF use_random
                       THEN \E action \in RandomActionRange \cap draws.action :
                              Finish(d1, crashed, obs, eps_reset, reward,
                                     use_random, <<>>, action, draws)
                       ELSE \E q_values \in draws.q_values :
                              LET some_action ==
                                      Position(q_values, MaxLastDim(q_values))
                              IN  IF some_action = <<>>
                                  THEN Panic(d1, crashed, obs, eps_reset, reward,
                                             q_values)
                                  ELSE Finish(d1, crashed, obs, eps_reset, reward,
                                              use_random, q_values,
                                              some_action[1], draws)

----------------------------------------------------------------------------
(* dqn_dash_update_system *)

\* format!("{:.3}", eps) of an eps between 0 and 1: the thousandths nearest
\* to the value of the f32, a tie going to the even one
FormatEps(eps) ==
    LET shift == (150 - F32Exp(eps)) - 3
        m == F32Mant(eps) * 125
    IN  IF eps = 0 \/ shift > 30 THEN 0
        ELSE LET q == m \div Pow2(shift)
                 r == m % Pow2(shift)
                 half == Pow2(shift - 1)
             IN  IF r > half \/ (r = half /\ q % 2 = 1) THEN q + 1 ELSE q

\* mutant: a read of the diagnostics counts as a step
DashUpdateCountsStep ==
    /\ ~panicked
    /\ dash' = [generation |-> <<RbLen(dqn.rb), dqn.step \div SYNC_INTERVAL_STEPS>>,
                timing |-> <<FormatEps(dqn.eps)>>]
    /\ dqn' = [dqn EXCEPT !.step = dqn.step + 1]
    /\ UNCHANGED <<time, car_dqn, car, frame, recent, panicked, server, online, client>>

\* the texts "rb {len}, sync {step / SYNC_INTERVAL_STEPS}" and
\* "epsilon {eps:.3}", held as the numbers they show
dqn_dash_update_system ==
    /\ ~panicked
    /\ dash' = [generation |-> <<RbLen(dqn.rb), dqn.step \div SYNC_INTERVAL_STEPS>>,
                timing |-> <<FormatEps(dqn.eps)>>]
    /\ UNCHANGED <<time, dqn, car_dqn, car, frame, recent, panicked>>
    /\ UNCHANGED <<server, online, client>>

----------------------------------------------------------------------------
(* The inputs of the open specification. *)
Dts == {0, 1, 2}
\* 0 m, 0.05 m, 0.15 m and 5 m
Meters == {0, 1, 3, 100}
\* forward, backward to the right and backward to the left, in degrees
Angles == {0, 170, -170}
Colliding == {{}, {"road"}, {"road", "wall"}}
\* 0.0f32 and 0.99999994f32, the least and the greatest value of gen_range(0.0..1.0)
RandomNumbers == {0, 1065353215}
Nums(v) == [k \in 1..ACTION_SIZE |-> Num(v[k])]
NaNs == [k \in 1..ACTION_SIZE |-> NaN]
\* [0.1, 0.9, 0.3, 0, ...], a tie for the maximum, the maximum last, no number
QValues == {Nums(<<1, 9, 3, 0, 0, 0, 0, 0>>), Nums(<<5, 2, 5, 5, 0, 0, 0, 5>>),
            Nums(<<-4, -4, -4, -4, -4, -4, -4, -1>>), NaNs}

Sensors == [k \in 1..SENSOR_COUNT |-> 7]

Envs ==
    [colliding_entities : Colliding, meters : Meters, angle : Angles,
     mps : {0}, sensor_inputs : {Sensors}]

AllDraws ==
    [random_number |-> RandomNumbers, action |-> 0..(ACTION_SIZE - 1),
     q_values |-> QValues, index |-> 0..(BUFFER_SIZE - 1),
     loss_finite |-> BOOLEAN]

Next ==
    \E dt \in Dts, env \in Envs :
        /\ time + dt <= MaxTime
        /\ dqn_system(dt, env, AllDraws)

Spec == Init /\ [][Next]_vars

----------------------------------------------------------------------------
(* The long specification: WarmupTicks scripted eligible ticks (the car    *)
(* creeps forward 0.05 m per tick, facing forward, touching nothing, and   *)
(* every draw below epsilon picks action 0), then OpenTicks unscripted     *)
(* ones.  The scripted ticks take the controller through the epsilon       *)
(* decay, which needs some 990 training passes to reach min_eps.           *)
Ticks == dqn.rb.i

WarmupEnvs ==
    [colliding_entities : {{}}, meters : {car_dqn.prev_progress + 1}, angle : {0},
     mps : {0}, sensor_inputs : {Sensors}]

WarmupDraws ==
    [random_number |-> {0}, action |-> {0}, q_values |-> {},
     index |-> {0, BUFFER_SIZE - 1}, loss_finite |-> {TRUE}]

LongEnvs ==
    [colliding_entities : {{}, {"wall"}},
     meters : {car_dqn.prev_progress, car_dqn.prev_progress + 1},
     angle : {0, 170}, mps : {0}, sensor_inputs : {Sensors}]

LongDraws ==
    [random_number |-> RandomNumbers, action |-> {0},
     q_values |-> {Nums(<<1, 9, 3, 0, 0, 0, 0, 0>>),
                   Nums(<<5, 2, 5, 5, 0, 0, 0, 5>>), NaNs},
     index |-> {0}, loss_finite |-> BOOLEAN]

LongTimes == 2 * (WarmupTicks + OpenTicks)

NextLong ==
    IF Ticks < WarmupTicks
    THEN \E env \in WarmupEnvs : dqn_system(2, env, WarmupDraws)
    ELSE \E dt \in {1, 2}, env \in LongEnvs :
            /\ time + dt <= LongTimes
            /\ dqn_system(dt, env, LongDraws)

SpecLong == Init /\ [][NextLong]_vars

----------------------------------------------------------------------------
(* The specification with the dashboard: DashTicks scripted eligible ticks *)
(* as above, and an update of the dashboard at any moment between them.    *)
NextDash ==
    \/ /\ Ticks < DashTicks
       /\ \E env \in WarmupEnvs : dqn_system(2, env, WarmupDraws)
    \/ dqn_dash_update_system

SpecDash == Init /\ [][NextDash]_vars

----------------------------------------------------------------------------
(* The game server alone, fed any batch of up to two connection events    *)
(* and input messages, and the game client alone, fed any batch of up to  *)
(* two server messages and any set of networked entities.                 *)
NextServer ==
    \E events \in SeqsUpTo(ServerEvents, 2) :
        \E messages \in SeqsUpTo(InputMessages, 2 - Len(events)) :
            server_update_system(events, messages)

SpecServer == Init /\ [][NextServer]_vars

NextClient ==
    \E messages \in SeqsUpTo(ServerMessages, 2),
       networked_entities \in SUBSET ServerEntities :
        client_sync_players(messages, networked_entities)

SpecClient == Init /\ [][NextClient]_vars

----------------------------------------------------------------------------
(* The claims. *)
Min(a, b) == IF a < b THEN a ELSE b

Max(a, b) == IF a > b THEN a ELSE b

\* C1: after N stores the buffer holds min(N, BUFFER_SIZE) transitions, in
\* each of its four vectors, and so never more than BUFFER_SIZE.
C1_Length ==
    /\ RbLen(dqn.rb) = Min(dqn.rb.i, BUFFER_SIZE)
    /\ Len(dqn.rb.action) = RbLen(dqn.rb)
    /\ Len(dqn.rb.reward) = RbLen(dqn.rb)
    /\ Len(dqn.rb.next_state) = RbLen(dqn.rb)
    /\ RbLen(dqn.rb) <= BUFFER_SIZE

\* more stores than the capacity have been made
C1_Witness ==
    dqn.rb.i > BUFFER_SIZE /\ RbLen(dqn.rb) = BUFFER_SIZE

\* C2: the buffer holds exactly the last min(N, BUFFER_SIZE) stored
\* transitions, the k-th store (1-indexed) in slot (k - 1) mod BUFFER_SIZE.
C2_MostRecent ==
    /\ Len(recent) = RbLen(dqn.rb)
    /\ \A j \in 1..Len(recent) :
          LET k == dqn.rb.i - Len(recent) + j
          IN  StateTupleAt(dqn.rb, (k - 1) % BUFFER_SIZE) = recent[j]

\* two stores after the buffer filled up, the transitions that end in the
\* observations 3 .. BUFFER_SIZE + 2 are the ones left (the scripted ticks
\* number their observations 1, 2, 3, ... in the progress field)
C2_Witness ==
    /\ dqn.rb.i = BUFFER_SIZE + 2
    /\ {dqn.rb.next_state[j][1] : j \in 1..RbLen(dqn.rb)} = 3..(BUFFER_SIZE + 2)
    /\ dqn.rb.next_state[1][1] = BUFFER_SIZE + 1
    /\ dqn.rb.next_state[2][1] = BUFFER_SIZE + 2

\* C3: a training pass reads BATCH_SIZE transitions, the j-th of them the
\* buffer's transition at the j-th drawn index, every index below the
\* buffer's length (the buffer is the one the call started with).
C3_Batch ==
    [][frame'.trained =>
          /\ Len(frame'.batch) = BATCH_SIZE
          /\ Len(frame'.batch_indexes) = BATCH_SIZE
          /\ RbLen(dqn.rb) >= BATCH_SIZE
          /\ \A j \in 1..BATCH_SIZE :
                LET i == frame'.batch_indexes[j]
                IN  /\ 0 <= i /\ i < RbLen(dqn.rb)
                    /\ frame'.batch[j] = <<dqn.rb.state[i + 1], dqn.rb.action[i + 1],
                                           dqn.rb.reward[i + 1], dqn.rb.next_state[i + 1]>>]_vars

\* a batch that draws one index twice
C3_Witness ==
    /\ frame.trained
    /\ frame.batch_indexes[1] = frame.batch_indexes[2]
    /\ frame.batch[1] = frame.batch[2]
    /\ Len(frame.batch) = BATCH_SIZE

\* C4: whenever a tick that explores can run, it can choose each of the
\* action indexes 0 .. ACTION_SIZE - 1.
C4_EveryActionExplored ==
    (ENABLED (Next /\ frame'.use_random)) =>
        \A a \in 0..(ACTION_SIZE - 1) :
            ENABLED (Next /\ frame'.use_random /\ frame'.action = a)

\* C5: a tick that exploits chooses the smallest index whose output equals
\* the maximum of the outputs; the outputs [0.1, 0.9, 0.3, 0, ...] choose 1.
C5_FirstMax ==
    (frame.ran /\ ~frame.use_random /\ ~panicked) =>
        LET q == frame.q_values
            a == frame.action
        IN  /\ a \in 0..(ACTION_SIZE - 1)
            /\ \A k \in 1..ACTION_SIZE : q[k][2] <= q[a + 1][2]
            /\ \A k \in 1..a : q[k][2] < q[a + 1][2]
            /\ q = Nums(<<1, 9, 3, 0, 0, 0, 0, 0>>) => a = 1
            /\ car_dqn.prev_action = a

\* the outputs [0.1, 0.9, 0.3, 0, ...] have been exploited
C5_Witness ==
    /\ frame.ran /\ ~frame.use_random /\ ~panicked
    /\ frame.q_values = Nums(<<1, 9, 3, 0, 0, 0, 0, 0>>)
    /\ frame.action = 1

\* C6: epsilon lies between min_eps and max_eps in every state.
C6_EpsInRange ==
    dqn.min_eps <= dqn.eps /\ dqn.eps <= dqn.max_eps

\* C7: a training pass lowers epsilon by DECAY, floored at min_eps, so that
\* without a reset epsilon does not increase; a tick without a training pass
\* does not decay it.
C7_DecayFloored ==
    [][(frame'.ran /\ ~panicked') =>
          LET e == IF frame'.eps_reset THEN dqn.max_eps ELSE dqn.eps
          IN  IF frame'.trained
              THEN /\ dqn'.eps = Max(F32Sub(e, DECAY), dqn.min_eps)
                   /\ ~frame'.eps_reset => dqn'.eps <= dqn.eps
              ELSE dqn'.eps = e]_vars

C9_Crash ==
    [][(frame'.ran /\ frame'.crashed) =>
          /\ frame'.reward = CRASH_REWARD
          /\ ~frame'.eps_reset
          /\ dqn'.eps <= Max(dqn.eps, dqn.min_eps)
          /\ ~panicked' =>
                /\ dqn'.rb.reward[(dqn.rb.i % BUFFER_SIZE) + 1] = CRASH_REWARD
                /\ car_dqn'.prev_reward = CRASH_REWARD]_vars

\* a crash while the car faces backward and epsilon is at its floor
C9_Witness ==
    /\ frame.ran /\ frame.crashed /\ frame.trained
    /\ frame.obs[2] > FRAC_PI_2
    /\ dqn.eps = dqn.min_eps
    /\ car_dqn.prev_reward = CRASH_REWARD

\* C10: without a collision the reward is 0 for a rate strictly between 0
\* and 0.2, the rate divided by 15 for a rate of 0.2 or more, and the rate
\* itself for a rate of 0 or less, the rate being the progress since the
\* last tick, negated when it is positive and the car faces backward,
\* divided by STEP_DURATION.
C10_Reward ==
    [][(frame'.ran /\ ~frame'.crashed) =>
          LET dp == frame'.obs[1] - car_dqn.prev_progress
              flipped == IF dp > 0 /\ frame'.obs[2] > FRAC_PI_2 THEN -dp ELSE dp
              rate == flipped \div STEP_DURATION
              in_reward_steps == rate * RATE_DIVISOR
          IN  /\ (rate > 0 /\ rate < MIN_RATE) => frame'.reward = 0
              /\ rate >= MIN_RATE => frame'.reward = in_reward_steps \div RATE_DIVISOR
              /\ rate <= 0 => frame'.reward = in_reward_steps]_vars

\* a tick after a progress of 0.05 m that faces forward: the rate 0.1 is
\* under the threshold and the reward is 0
C10_Witness ==
    /\ frame.ran /\ ~frame.crashed
    /\ frame.obs[1] = 1 /\ frame.obs[2] = 0
    /\ dqn.rb.i = 1
    /\ frame.reward = 0

\* C11: without a collision a positive progress made while the car faces
\* backward is negated before the reward branches are evaluated, and a
\* progress of 0 or less, or one made facing forward, is left as it is:
\* the reward is the one of the negative rate in the first case and the
\* one of the raw progress otherwise. A progress of 5 m in one step gives
\* the reward 10/15 at the heading 0 and the reward -10 at 170 degrees.
C11_SignFlip ==
    [][(frame'.ran /\ ~frame'.crashed) =>
          LET dp == frame'.obs[1] - car_dqn.prev_progress
              backward == frame'.obs[2] > FRAC_PI_2
              rate == dp \div STEP_DURATION
          IN  /\ (dp > 0 /\ backward) => frame'.reward = (-rate) * RATE_DIVISOR
              /\ (dp > 0 /\ ~backward) => frame'.reward = ProgressReward(dp)
              /\ (dp > 0 /\ ~backward) => frame'.reward >= 0
              /\ dp <= 0 => frame'.reward = rate * RATE_DIVISOR
              /\ (dp = 100 /\ frame'.obs[2] = 0) => frame'.reward = 100
              /\ (dp = 100 /\ frame'.obs[2] = 170) => frame'.reward = -1500]_vars

\* the first tick, 5 m along the track at 170 degrees: the reward is -10
C11_Witness ==
    /\ frame.ran /\ ~frame.crashed
    /\ dqn.rb.i = 1
    /\ frame.obs[1] = 100 /\ frame.obs[2] = 170
    /\ frame.reward = -1500

\* C12: the transition stored by a tick is the observation and the action
\* of the previous eligible tick, the reward computed in this tick and the
\* observation built in this tick; the memory of the agent then holds the
\* observation, action, reward and progress of this tick.
C12_Transition ==
    /\ []((frame.ran /\ ~panicked) => /\ car_dqn.prev_obs = frame.obs
                                      /\ car_dqn.prev_action = frame.action)
    /\ [][(frame'.ran /\ ~panicked') =>
            /\ dqn'.rb.i = dqn.rb.i + 1
            /\ StateTupleAt(dqn'.rb, dqn.rb.i % BUFFER_SIZE)
                 = <<car_dqn.prev_obs, car_dqn.prev_action,
                     frame'.reward, frame'.obs>>
            /\ car_dqn' = [prev_obs |-> frame'.obs,
                           prev_action |-> frame'.action,
                           prev_reward |-> frame'.reward,
                           prev_progress |-> frame'.obs[1]]]_vars

\* the second tick chose action 5 after the first chose action 3: the
\* second transition holds action 3 and starts where the first one ended
C12_Witness ==
    /\ frame.ran /\ frame.action = 5
    /\ dqn.rb.i = 2
    /\ dqn.rb.action[2] = 3
    /\ dqn.rb.state[2] = dqn.rb.next_state[1]
    /\ dqn.rb.next_state[2] = frame.obs
    /\ car_dqn.prev_action = 5

\* C13: a call made before the time has reached the watermark changes
\* nothing: the watermark, the step counter, the buffer, eps, both
\* networks, the memory of the agent and the actuators stay as they are.
C13_NotDueNoWork ==
    [][time' < dqn.seconds =>
          /\ ~frame'.ran
          /\ dqn' = dqn
          /\ car_dqn' = car_dqn
          /\ car' = car
          /\ recent' = recent]_vars

\* a call before the watermark after a tick that pressed the gas: the gas
\* is still pressed
C13_Witness ==
    /\ ~frame.ran
    /\ dqn.rb.i = 1
    /\ time < dqn.seconds
    /\ car.gas = 1

\* C14: a call made at or after the watermark runs the pipeline once and
\* moves the watermark to its old value plus STEP_DURATION.
C14_WatermarkFromOld ==
    [][time' >= dqn.seconds =>
          /\ frame'.ran
          /\ dqn'.seconds = dqn.seconds + STEP_DURATION]_vars

\* the number of training passes made so far
Passes == dqn.qn \div EPOCHS

\* C15: a tick that reaches the training gate makes a training pass if and
\* only if the buffer holds more than BATCH_SIZE + 1 transitions before
\* the store of the tick; without a pass, neither network is updated.
C15_TrainGate ==
    [][(frame'.ran /\ ~panicked') =>
          /\ frame'.trained <=> RbLen(dqn.rb) > BATCH_SIZE + 1
          /\ frame'.trained => dqn'.qn = dqn.qn + EPOCHS
          /\ ~frame'.trained => (dqn'.qn = dqn.qn /\ dqn'.tqn = dqn.tqn)]_vars

\* the first training pass, made by the tick that found BATCH_SIZE + 2
\* transitions in the buffer
C15_Witness ==
    /\ frame.ran /\ frame.trained
    /\ dqn.rb.i = BATCH_SIZE + 3
    /\ Passes = 1

\* C16: the k-th sync of the target network is made at the end of the
\* training pass number SYNC_INTERVAL_STEPS * k: the target network is the
\* trainable network as it was after the last such pass.
C16_SyncEveryHundredPasses ==
    dqn.tqn = EPOCHS * ((Passes \div SYNC_INTERVAL_STEPS) * SYNC_INTERVAL_STEPS)

\* C17: the target network equals the trainable network at creation and
\* changes only in a training pass that ends with a sync, which makes it
\* the trainable network of that moment; the gradient epochs never change
\* it.
C17_TargetOnlySynced ==
    /\ dqn.tqn = dqn.qn
    /\ [][/\ dqn'.tqn # dqn.tqn =>
               (frame'.trained /\ Syncs(dqn'.step) /\ dqn'.tqn = dqn'.qn)
          /\ (frame'.trained /\ ~Syncs(dqn'.step)) => dqn'.tqn = dqn.tqn]_vars

\* the pass after the first sync: the trainable network has moved on and
\* the target network is still the snapshot
C17_Witness ==
    /\ frame.trained
    /\ Passes = SYNC_INTERVAL_STEPS
    /\ dqn.tqn = EPOCHS * (SYNC_INTERVAL_STEPS - 1)
    /\ dqn.qn # dqn.tqn

\* C18: the transition of a tick is stored before the training pass of
\* the tick samples, so the batch is read from the buffer that holds the
\* new transition.
C18_StoredBeforeSampling ==
    frame.trained =>
       \A j \in 1..BATCH_SIZE :
          frame.batch[j] = StateTupleAt(dqn.rb, frame.batch_indexes[j])

\* C19: the actions 0 to 7 are the gas, brake and steering values
\* (1,0,0), (0,1,0), (0,0,-1), (0,0,1), (1,0,-1), (1,0,1), (0,1,-1) and
\* (0,1,1), and every tick that chooses an action writes the values of
\* that action to the car.
C19_Actuators ==
    LET table == <<  <<1, 0, 0>>, <<0, 1, 0>>, <<0, 0, -1>>, <<0, 0, 1>>,
                     <<1, 0, -1>>, <<1, 0, 1>>, <<0, 1, -1>>, <<0, 1, 1>> >>
    IN  /\ \A a \in 0..(ACTION_SIZE - 1) :
              <<Gas(a), Brake(a), Right(a) - Left(a)>> = table[a + 1]
        /\ (frame.ran /\ ~panicked) =>
              <<car.gas, car.brake, car.steering>> = table[frame.action + 1]

\* a tick chose action 6: the car brakes and steers left
C19_Witness ==
    /\ frame.ran /\ frame.action = 6
    /\ car.gas = 0 /\ car.brake = 1 /\ car.steering = -1

\* C20: a training pass whose loss is not finite ends in a fatal error and
\* updates no parameter, makes no sync, does not decay eps and stores
\* nothing.
C20_NonFiniteLossFatal ==
    [][(frame'.trained /\ ~frame'.loss_finite) =>
          /\ panicked'
          /\ dqn'.qn = dqn.qn
          /\ dqn'.tqn = dqn.tqn
          /\ dqn'.eps = dqn.eps
          /\ dqn'.rb = dqn.rb]_vars

\* C21: a tick that exploits and finds no action whose value attains the
\* maximum ends in a panic at that point: no training pass is made, no
\* transition is stored, the memory of the agent and the actuators are not
\* written, and nothing of the controller but the watermark, the step
\* counter and eps (by a reset to max_eps) has changed.
C21_NoMaxIsFatal ==
    [][(/\ frame'.ran /\ ~frame'.use_random /\ frame'.q_values # <<>>
        /\ \A k \in 1..ACTION_SIZE :
              ~F32Ge(frame'.q_values[k], MaxLastDim(frame'.q_values)))
         => /\ panicked'
            /\ ~frame'.trained
            /\ dqn'.rb = dqn.rb /\ recent' = recent
            /\ dqn'.qn = dqn.qn /\ dqn'.tqn = dqn.tqn
            /\ car_dqn' = car_dqn
            /\ car' = car
            /\ dqn'.eps \in {dqn.eps, dqn.max_eps}
            /\ dqn' = [dqn EXCEPT !.seconds = dqn'.seconds,
                                  !.step = dqn'.step,
                                  !.eps = dqn'.eps]]_vars

\* a panic in a tick that saw the car 0.05 m further: the memory of the
\* agent still holds the progress of the tick before
C21_Witness ==
    /\ panicked /\ frame.ran
    /\ \A k \in 1..ACTION_SIZE : IsNaN(frame.q_values[k])
    /\ frame.obs[1] = car_dqn.prev_progress + 1
    /\ car_dqn.prev_obs # frame.obs

\* C22: a training pass makes exactly EPOCHS optimizer updates of the
\* trainable network, all on the one batch drawn at its start, and the tick
\* then completes: the transition is stored, the memory of the agent and
\* the actuators are written and nothing panics.
C22_PassCompletes ==
    [][frame'.trained =>
          /\ dqn'.qn = dqn.qn + EPOCHS
          /\ EPOCHS = 20
          /\ Len(frame'.batch) = BATCH_SIZE
          /\ ~panicked'
          /\ dqn'.rb.i = dqn.rb.i + 1
          /\ car_dqn'.prev_obs = frame'.obs
          /\ car'.gas = Gas(frame'.action)]_vars

\* the second training pass has completed: 40 updates
C22_Witness ==
    /\ frame.trained /\ ~panicked
    /\ dqn.qn = 2 * EPOCHS
    /\ dqn.rb.i = BATCH_SIZE + 4

\* C23: a call that is not due and a tick that finds too few transitions
\* to train are no failures: the first does nothing, the second skips the
\* training pass only and still completes, neither panics, and the next
\* tick that is due and finds enough transitions makes its training pass
\* whatever was skipped before it.
C23_SkipsAreNotErrors ==
    [][/\ time' <= dqn.seconds => (~frame'.ran /\ ~panicked')
       /\ (time' > dqn.seconds /\ RbLen(dqn.rb) <= BATCH_SIZE + 1) =>
             /\ frame'.ran /\ ~frame'.trained /\ ~panicked'
             /\ dqn'.rb.i = dqn.rb.i + 1
             /\ dqn'.qn = dqn.qn
       /\ (/\ ~frame.ran \/ ~frame.trained
           /\ time' > dqn.seconds /\ RbLen(dqn.rb) > BATCH_SIZE + 1
           /\ ~panicked')
            => frame'.trained]_vars

\* a call that was not due, made when the training had long begun
C23_Witness ==
    /\ ~frame.ran /\ ~panicked
    /\ Ticks >= WarmupTicks
    /\ RbLen(dqn.rb) > BATCH_SIZE + 1
    /\ time = dqn.seconds

\* C24: a store writes the four fields of the slot i % BUFFER_SIZE and
\* leaves every other slot as it is, and nothing but a store changes the
\* buffer: a training pass leaves the buffer it sampled unchanged.
C24_OneSlotPerStore ==
    [][/\ dqn'.rb # dqn.rb =>
            /\ frame'.ran /\ ~panicked'
            /\ dqn'.rb.i = dqn.rb.i + 1
            /\ StateTupleAt(dqn'.rb, dqn.rb.i % BUFFER_SIZE)
                 = <<car_dqn.prev_obs, car_dqn.prev_action,
                     frame'.reward, frame'.obs>>
            /\ \A k \in 0..(RbLen(dqn.rb) - 1) :
                  k # dqn.rb.i % BUFFER_SIZE =>
                     StateTupleAt(dqn'.rb, k) = StateTupleAt(dqn.rb, k)
            /\ RbLen(dqn'.rb) = Min(RbLen(dqn.rb) + 1, BUFFER_SIZE)
       /\ frame'.trained =>
            \A j \in 1..BATCH_SIZE :
               frame'.batch[j] = StateTupleAt(dqn.rb, frame'.batch_indexes[j])]_vars

\* the store after the first wraparound: slot 1 is new, slot 0 holds the
\* transition written one tick before and slot 2 one of the first round
C24_Witness ==
    /\ frame.ran
    /\ dqn.rb.i = BUFFER_SIZE + 2
    /\ dqn.rb.next_state[2] = frame.obs
    /\ dqn.rb.next_state[1] = dqn.rb.state[2]
    /\ dqn.rb.next_state[3][1] < dqn.rb.state[1][1]

\* C25: an update of the dashboard shows the length of the buffer, the
\* step counter divided by SYNC_INTERVAL_STEPS and eps, and changes nothing
\* of the controller: the buffer, the step counter, eps, the watermark and
\* both networks are what they were, as are the memory of the agent and
\* the actuators.
C25_DashReadsOnly ==
    [][time' = time =>
          /\ dqn' = dqn
          /\ car_dqn' = car_dqn /\ car' = car /\ frame' = frame
          /\ dash'.generation[1] = RbLen(dqn.rb)
          /\ dash'.generation[2] * SYNC_INTERVAL_STEPS <= dqn.step
          /\ dqn.step < (dash'.generation[2] + 1) * SYNC_INTERVAL_STEPS
          /\ dash'.timing = <<FormatEps(dqn.eps)>>]_vars

\* the dashboard after the tick that brought the step counter to
\* SYNC_INTERVAL_STEPS: "rb 4, sync 1" and "epsilon 0.901"
C25_Witness ==
    /\ dqn.step = SYNC_INTERVAL_STEPS
    /\ dash.generation = <<BUFFER_SIZE, 1>>
    /\ dash.timing = <<901>>
    /\ dqn.tqn = dqn.qn

\* C26: the observation has the length 3 + SENSOR_COUNT and holds the
\* progress in meters, the heading angle, the speed and then the sensor
\* readings in their order, for every input and in every tick.
C26_Observation ==
    /\ \A meters \in Meters, angle \in Angles, mps \in {0, 5},
          sensor_inputs \in [1..SENSOR_COUNT -> {7, 9}] :
          LET obs == BuildObs(meters, angle, mps, sensor_inputs)
          IN  /\ Len(obs) = 3 + SENSOR_COUNT
              /\ obs[1] = meters /\ obs[2] = angle /\ obs[3] = mps
              /\ \A j \in 0..(SENSOR_COUNT - 1) : obs[3 + j + 1] = sensor_inputs[j + 1]
    /\ [](frame.ran =>
            /\ Len(frame.obs) = 3 + SENSOR_COUNT
            /\ frame.obs[1] \in Meters /\ frame.obs[2] \in Angles /\ frame.obs[3] = 0
            /\ \A j \in 0..(SENSOR_COUNT - 1) : frame.obs[3 + j + 1] = Sensors[j + 1]
            /\ car_dqn.prev_progress = frame.obs[1])

\* a tick 5 m along the track, facing backward, standing still
C26_Witness ==
    /\ frame.ran
    /\ frame.obs = <<100, 170, 0>> \o Sensors
    /\ car_dqn.prev_obs = frame.obs

\* C27: the step counter grows by 1 in every tick that finds more than
\* BATCH_SIZE transitions in the buffer and changes in no other call; it is
\* 1 after the tick before the first training pass, and after every
\* training pass it is the number of passes made plus 1.
C27_StepCounter ==
    [][/\ dqn'.step >= dqn.step
       /\ (time' > dqn.seconds /\ RbLen(dqn.rb) > BATCH_SIZE) =>
             dqn'.step = dqn.step + 1
       /\ ~(time' > dqn.seconds /\ RbLen(dqn.rb) > BATCH_SIZE) =>
             dqn'.step = dqn.step
       /\ (time' > dqn.seconds /\ RbLen(dqn.rb) = BATCH_SIZE + 1) =>
             (dqn'.step = 1 /\ ~frame'.trained)
       /\ frame'.trained => dqn'.step = (dqn'.qn \div EPOCHS) + 1]_vars

\* the tick before the first training pass: the counter is 1, no pass yet
C27_Witness ==
    /\ frame.ran /\ ~frame.trained
    /\ dqn.step = 1
    /\ Passes = 0
    /\ dqn.rb.i = BATCH_SIZE + 2

\* C28: every tick that completes stores one transition, with or without a
\* collision and with or without a training pass; the length of the buffer
\* never decreases, and after the first training pass every tick that
\* completes makes a training pass.
C28_GateStaysOpen ==
    [][/\ (frame'.ran /\ ~panicked') => dqn'.rb.i = dqn.rb.i + 1
       /\ RbLen(dqn'.rb) >= RbLen(dqn.rb)
       /\ (Passes >= 1 /\ frame'.ran /\ ~panicked') => frame'.trained]_vars

\* a tick with a collision, long after the first pass: it trained and it
\* stored the reward -10
C28_Witness ==
    /\ frame.ran /\ frame.crashed /\ frame.trained
    /\ Ticks > WarmupTicks
    /\ dqn.rb.reward[((dqn.rb.i - 1) % BUFFER_SIZE) + 1] = CRASH_REWARD

\* C29: the watermark never decreases; after a tick it is the time of the
\* tick plus STEP_DURATION; a call at the watermark exactly is not a tick;
\* two ticks in a row are more than STEP_DURATION apart.
C29_Watermark ==
    /\ [](dqn.rb.i > 0 => dqn.seconds - STEP_DURATION <= time)
    /\ [][/\ dqn'.seconds >= dqn.seconds
          /\ frame'.ran => dqn'.seconds = time' + STEP_DURATION
          /\ time' = dqn.seconds => (~frame'.ran /\ dqn' = dqn)
          /\ (frame'.ran /\ dqn.rb.i > 0) =>
                time' - (dqn.seconds - STEP_DURATION) > STEP_DURATION]_vars

\* a call at the watermark exactly, after the first tick: not a tick
C29_Witness ==
    /\ ~frame.ran
    /\ dqn.rb.i = 1
    /\ time = dqn.seconds

\* C30: the car faces backward exactly when its angle is above +90
\* degrees, never for a negative angle; without a collision the progress
\* is negated only then (and only when positive), eps is reset only then
\* (and only when at its floor), and the reward of a car that faces
\* backward is 0 or less for every progress.
C30_OneSided ==
    /\ \A angle \in {-180, -170, -91, -90, 0, 90, 91, 170, 180} :
          /\ DirectionFlip(angle) <=> angle > FRAC_PI_2
          /\ ResetsEps(FALSE, angle, MIN_EPS, MIN_EPS) <=> angle > FRAC_PI_2
          /\ \A meters \in Meters, prev_progress \in Meters :
                /\ angle > FRAC_PI_2 =>
                      Reward(FALSE, meters, prev_progress, angle) <= 0
                /\ (angle <= FRAC_PI_2 /\ meters > prev_progress) =>
                      Reward(FALSE, meters, prev_progress, angle) >= 0
    /\ [][(frame'.ran /\ ~frame'.crashed) =>
            LET dp == frame'.obs[1] - car_dqn.prev_progress
                angle == frame'.obs[2]
            IN  /\ angle > FRAC_PI_2 => frame'.reward <= 0
                /\ (angle <= FRAC_PI_2 /\ dp > 0) => frame'.reward >= 0
                /\ (angle <= FRAC_PI_2 /\ dp >= MIN_RATE * STEP_DURATION) =>
                      frame'.reward > 0
                /\ frame'.eps_reset => angle > FRAC_PI_2]_vars

\* the first tick, 5 m along the track at -170 degrees: the progress is
\* not negated and the reward is 10/15
C30_Witness ==
    /\ frame.ran /\ ~frame.crashed
    /\ dqn.rb.i = 1
    /\ frame.obs[1] = 100 /\ frame.obs[2] = -170
    /\ frame.reward = 100

\* C31: the first transition stored holds the initial memory of the agent:
\* the all-zero observation as its state, action 0, and a reward computed
\* against a previous progress of 0; every later transition starts from the
\* observation built, and holds the action written to the actuators, by the
\* eligible tick before it.
C31_FirstTransition ==
    [][(frame'.ran /\ ~panicked') =>
          LET t == StateTupleAt(dqn'.rb, dqn.rb.i % BUFFER_SIZE)
          IN  IF dqn.rb.i = 0
              THEN /\ t[1] = [k \in 1..STATE_SIZE |-> 0]
                   /\ t[2] = 0
                   /\ t[3] = Reward(frame'.crashed, frame'.obs[1], 0, frame'.obs[2])
                   /\ t[4] = frame'.obs
              ELSE /\ t[1] = recent[Len(recent)][4]
                   /\ Gas(t[2]) = car.gas
                   /\ Brake(t[2]) = car.brake
                   /\ Right(t[2]) - Left(t[2]) = car.steering]_vars

\* the first tick found the car 0.15 m down the track and chose action 4:
\* its transition starts from zeros with action 0 and the reward of 0.15 m
\* of progress from 0; the second tick stored action 4
C31_Witness ==
    /\ dqn.rb.i = 2
    /\ dqn.rb.state[1] = ZeroObs /\ dqn.rb.action[1] = 0
    /\ dqn.rb.next_state[1][1] = 3 /\ dqn.rb.reward[1] = 3
    /\ dqn.rb.action[2] = 4
    /\ dqn.rb.state[2][1] = 3

\* C32: the reset of epsilon comes before the action selection of the same
\* tick: a tick that resets epsilon to max_eps = 1 chooses its action by
\* exploration, runs a training pass, and ends with epsilon at
\* max_eps - DECAY.
C32_ResetThenExplore ==
    [][frame'.eps_reset =>
          /\ dqn.eps <= dqn.min_eps
          /\ frame'.use_random
          /\ frame'.q_values = <<>>
          /\ ~panicked'
          /\ frame'.trained
          /\ dqn'.qn = dqn.qn + EPOCHS
          /\ dqn'.eps = F32Sub(MAX_EPS, DECAY)
          /\ dqn'.eps = 1065336439]_vars

\* a training tick with the car facing backwards found epsilon at its
\* floor, reset it, explored and ended with epsilon one decay below 1
C32_Witness ==
    /\ frame.ran /\ frame.eps_reset
    /\ frame.use_random /\ frame.trained
    /\ frame.action = 0 /\ frame.obs[2] = 170
    /\ dqn.eps = 1065336439

\* C33: as long as no training pass has run, epsilon is max_eps = 1, so
\* every tick before the first pass chooses its action by exploration and
\* never evaluates the network to select an action.
C33_ExploreUntilTrained ==
    /\ [](dqn.qn = 0 => dqn.eps = MAX_EPS /\ dqn.eps = dqn.max_eps)
    /\ [][(dqn.qn = 0 /\ frame'.ran) =>
            /\ frame'.use_random
            /\ frame'.q_values = <<>>
            /\ frame'.action \in RandomActionRange
            /\ ~frame'.eps_reset
            /\ ~panicked']_vars

\* two untrained ticks, the second with the car facing backwards: both
\* explored and epsilon is still 1
C33_Witness ==
    /\ dqn.qn = 0 /\ dqn.rb.i = 2
    /\ frame.ran /\ frame.use_random /\ frame.obs[2] = 170
    /\ frame.action = 6
    /\ dqn.eps = MAX_EPS

\* C34: throttle and brake are never both 1; the eight actions give eight
\* pairwise distinct (throttle, brake, steering) triples, none of them
\* (0, 0, 0); the car holds such a triple after every tick that acted.
C34_Triples ==
    /\ \A a \in 0..(ACTION_SIZE - 1) :
          /\ ~(Gas(a) = 1 /\ Brake(a) = 1)
          /\ <<Gas(a), Brake(a), (-Left(a)) + Right(a)>> # <<0, 0, 0>>
          /\ \A b \in 0..(ACTION_SIZE - 1) :
                a # b => <<Gas(a), Brake(a), (-Left(a)) + Right(a)>>
                           # <<Gas(b), Brake(b), (-Left(b)) + Right(b)>>
    /\ [](dqn.rb.i > 0 =>
            /\ ~(car.gas = 1 /\ car.brake = 1)
            /\ <<car.gas, car.brake, car.steering>> # <<0, 0, 0>>)

\* action 4 was chosen: throttle with left steering, brake released
C34_Witness ==
    /\ frame.ran /\ frame.action = 4
    /\ car = [gas |-> 1, brake |-> 0, steering |-> -1]

\* C35: the four vectors of the replay buffer have the same length in every
\* reachable state; every index handed to get_batch is below that length,
\* and each sampled tuple is one stored transition, never a mix of two.
C35_ParallelVectors ==
    /\ [](/\ Len(dqn.rb.state) = Len(dqn.rb.action)
          /\ Len(dqn.rb.action) = Len(dqn.rb.reward)
          /\ Len(dqn.rb.reward) = Len(dqn.rb.next_state))
    /\ [][frame'.trained =>
            /\ Len(frame'.batch_indexes) = BATCH_SIZE
            /\ \A j \in 1..BATCH_SIZE :
                  /\ frame'.batch_indexes[j] >= 0
                  /\ frame'.batch_indexes[j] < Len(dqn.rb.state)
                  /\ frame'.batch_indexes[j] < Len(dqn.rb.next_state)
                  /\ frame'.batch[j] = <<dqn.rb.state[frame'.batch_indexes[j] + 1],
                                         dqn.rb.action[frame'.batch_indexes[j] + 1],
                                         dqn.rb.reward[frame'.batch_indexes[j] + 1],
                                         dqn.rb.next_state[frame'.batch_indexes[j] + 1]>>
                  /\ \E m \in 1..Len(recent) : frame'.batch[j] = recent[m]]_vars

\* a training tick on the full buffer sampled its last slot
C35_Witness ==
    /\ frame.trained
    /\ Len(dqn.rb.state) = BUFFER_SIZE /\ Len(dqn.rb.reward) = BUFFER_SIZE
    /\ dqn.rb.i > BUFFER_SIZE
    /\ frame.batch_indexes[1] = BUFFER_SIZE - 1

\* C36: on the game server, after any sequence of ClientConnected and
\* ClientDisconnected events and input messages, the player map of the
\* lobby has exactly one entry for every client that connected and did not
\* disconnect since, and the entry names a live entity of that player; a
\* disconnect removes the entry, despawns the entity the entry named and
\* broadcasts PlayerRemove for the id; the input of a client without a
\* lobby entry changes nothing.
C36_ServerLobby ==
    /\ [](/\ DOMAIN server.lobby.players = online
          /\ \A c \in online :
                /\ server.lobby.players[c] \in DOMAIN server.world
                /\ server.world[server.lobby.players[c]].id = c)
    /\ [][LET events == server'.events
              messages == server'.messages
              about(c) == {k \in 1..Len(events) : events[k].client_id = c}
              gone(c) == {k \in about(c) : events[k].type = "ClientDisconnected"}
              removes(c) == {k \in 1..Len(server'.sent) :
                               server'.sent[k] = <<Broadcast, PlayerRemove(c)>>}
          IN  /\ \A c \in ClientIds :
                    /\ Cardinality(removes(c)) = Cardinality(gone(c))
                    /\ (gone(c) # {} /\ \A k \in about(c) : \E g \in gone(c) : k <= g)
                          => c \notin DOMAIN server'.lobby.players
                    /\ (/\ c \in DOMAIN server.lobby.players
                        /\ gone(c) # {}
                        /\ \A k \in about(c) : \E g \in gone(c) : g <= k)
                          => server.lobby.players[c] \notin DOMAIN server'.world
              /\ (/\ events = <<>>
                  /\ \A k \in 1..Len(messages) :
                        messages[k].client_id \notin DOMAIN server.lobby.players)
                    => /\ server'.lobby = server.lobby
                       /\ server'.world = server.world
                       /\ server'.next_entity = server.next_entity
                       /\ server'.sent = <<>>
              /\ \A e \in DOMAIN server.world \cap DOMAIN server'.world :
                    server'.world[e].input # server.world[e].input
                      => \E k \in 1..Len(messages) :
                            /\ messages[k].client_id \in DOMAIN server'.lobby.players
                            /\ server'.lobby.players[messages[k].client_id] = e
                            /\ messages[k].input = server'.world[e].input]_vars

\* clients 1 and 2 had connected; a run then read the disconnect of client
\* 1 and an input message of client 1: the entry and the entity of client
\* 1 are gone, PlayerRemove was broadcast, client 2 is as it was
C36_Witness ==
    /\ online = {2}
    /\ DOMAIN server.lobby.players = {2}
    /\ server.events = <<[type |-> "ClientDisconnected", client_id |-> 1]>>
    /\ Len(server.messages) = 1 /\ server.messages[1].client_id = 1
    /\ server.messages[1].input # PlayerInputDefault
    /\ server.sent = <<<<Broadcast, PlayerRemove(1)>>>>
    /\ DOMAIN server.world = {2}
    /\ server.world[2] = [id |-> 2, input |-> PlayerInputDefault]
    /\ server.next_entity = 3

\* the pairs (server entity, client entity) of the network mapping, and
\* those of the players in the lobby of the client
MappingPairs ==
    {<<e, client.network_mapping[e]>> : e \in DOMAIN client.network_mapping}

LobbyPairs ==
    {<<client.lobby.players[id].server_entity,
       client.lobby.players[id].client_entity>> : id \in DOMAIN client.lobby.players}

====
